---------------------------- MODULE Spec2Model ----------------------------
(***************************************************************************)
(* GlobalMercator (src/lib.rs): the TMS Global Mercator tile pyramid.      *)
(*                                                                         *)
(* The object is immutable after construction; every operation is a pure   *)
(* function of its arguments and of tile_size.  The state machine below    *)
(* is a caller: it constructs a GlobalMercator, calls one operation with   *)
(* arguments drawn from bounded sets, observes the value returned (or the  *)
(* panic), and goes on to the next call.                                   *)
(*                                                                         *)
(* Numbers.  TLC's integers are 32 bits wide, which is exactly i32.        *)
(*  - i32 values are TLC integers; every i32 operation is written so that  *)
(*    no intermediate value leaves the i32 range, and reports whether the  *)
(*    mathematical result overflowed together with the wrapped result.     *)
(*    A build with overflow checks (debug, cargo test) panics on overflow, *)
(*    a build without (release) continues with the wrapped value:          *)
(*    overflow_checks is the build's setting.                              *)
(*  - u32 values and the integer-valued f64 values of the pixel space      *)
(*    (up to 2^47 in magnitude, all exactly representable in f64) are      *)
(*    "wide" numbers [hi, lo] standing for hi * 2^16 + lo, 0 <= lo < 2^16. *)
(*  - f64 pixel sizes are measured in units of initial_resolution / 2^30,  *)
(*    so that resolution(i), i < 30, is the integer 2^(30-i): division of  *)
(*    an f64 by a power of two is exact.                                   *)
(***************************************************************************)
EXTENDS Integers, Sequences, FiniteSets, TLC

VARIABLES
    tile_size,        \* GlobalMercator.tile_size (u32)
    overflow_checks,  \* TRUE: integer overflow panics; FALSE: it wraps
    pc,               \* "idle" | "returned" | "panicked"
    fn,               \* the operation called last ("" before the first call)
    args,             \* its arguments
    ret               \* the value it returned, its components named

vars == <<tile_size, overflow_checks, pc, fn, args, ret>>

-----------------------------------------------------------------------------
(* Bounds of the model.                                                    *)

\* zoom arguments are drawn from 0..MaxZoom
MaxZoom == 33
\* tile indices 0..MaxSmallTile are all drawn, beside the sampled large ones
MaxSmallTile == 3

-----------------------------------------------------------------------------
(* i32                                                                     *)

I32_MAX == 2^30 + (2^30 - 1)
I32_MIN == -I32_MAX - 1

\* a + b in i32: has the mathematical sum overflowed, and the wrapped sum
i32_add(a, b) ==
    IF b >= 0
    THEN IF a > I32_MAX - b
         THEN [overflow |-> TRUE, val |-> (a - I32_MAX - 1) + (b - I32_MAX - 1)]
         ELSE [overflow |-> FALSE, val |-> a + b]
    ELSE IF a < I32_MIN - b
         THEN [overflow |-> TRUE, val |-> (a - I32_MIN) + (b - I32_MIN)]
         ELSE [overflow |-> FALSE, val |-> a + b]

\* a - b in i32
i32_sub(a, b) ==
    IF b >= 0
    THEN IF a < I32_MIN + b
         THEN [overflow |-> TRUE, val |-> (I32_MAX - b) + (a - I32_MIN) + 1]
         ELSE [overflow |-> FALSE, val |-> a - b]
    ELSE IF a > I32_MAX + b
         THEN [overflow |-> TRUE, val |-> (a - I32_MAX - 1) - (b - I32_MIN)]
         ELSE [overflow |-> FALSE, val |-> a - b]

\* a * b modulo 2^32, for b >= 0, by doubling
RECURSIVE i32_wrapping_mul(_, _)
i32_wrapping_mul(a, b) ==
    IF b = 0 THEN 0
    ELSE LET h == i32_wrapping_mul(i32_add(a, a).val, b \div 2)
         IN  IF b % 2 = 1 THEN i32_add(h, a).val ELSE h

\* a * b in i32, for b >= 1 (b is tile_size as i32)
i32_mul(a, b) ==
    [overflow |-> a > I32_MAX \div b \/ a < (I32_MIN + b - 1) \div b,
     val      |-> i32_wrapping_mul(a, b)]

\* 1 << n in i32, n >= 0: the shift overflows when n >= 32, and the
\* wrapped shift uses n modulo 32; bit 31 is the sign bit
i32_shl_one(n) ==
    LET m == n % 32
    IN  [overflow |-> n >= 32,
         val      |-> IF m = 31 THEN I32_MIN ELSE 2^m]

\* (x & mask) != 0 for a mask of one bit (every mask 1 << n is), in two's
\* complement
i32_and_nonzero(x, mask) ==
    IF mask = I32_MIN THEN x < 0 ELSE (x \div mask) % 2 = 1

-----------------------------------------------------------------------------
(* wide numbers: u32, and the integer-valued f64 values                    *)

Limb == 2^16

Wide(hi, lo) == [hi |-> hi + lo \div Limb, lo |-> lo % Limb]

\* the wide number of an integer (u32 as f64, i32 as f64: exact)
int_as_f64(n) == Wide(n \div Limb, n % Limb)

f64_add(a, b) == Wide(a.hi + b.hi, a.lo + b.lo)
f64_sub(a, b) == Wide(a.hi - b.hi, a.lo - b.lo)

\* f64::powi(2.0, e) for 0 <= e <= 46: exact
f64_powi2(e) == IF e < 16 THEN Wide(0, 2^e) ELSE Wide(2^(e - 16), 0)

\* x as i32 for an f64 x: saturates at the ends of i32
f64_as_i32(x) ==
    IF x.hi > 32767 THEN I32_MAX
    ELSE IF x.hi < -32768 THEN I32_MIN
    ELSE x.hi * Limb + x.lo

\* x / d for an integer-valued f64 x and 1 <= d <= 2^15: the quotient's
\* floor and its fraction num/den.  The f64 quotient is this rational up to
\* rounding, and rounding moves it across no integer below 2^31.
f64_div(x, d) ==
    LET t == (x.hi % d) * Limb + x.lo
    IN  [floor |-> Wide(x.hi \div d, t \div d), num |-> t % d, den |-> d]

\* f64::ceil of a quotient
f64_ceil(q) == IF q.num = 0 THEN q.floor ELSE f64_add(q.floor, Wide(0, 1))

\* x << n in u32 (x wide, 0 <= n): the bits shifted out are lost; the shift
\* overflows when n >= 32, and the wrapped shift uses n modulo 32
u32_shl(x, n) ==
    LET m == n % 32
        v == IF m < 16
             THEN [hi |-> (x.hi * 2^m + (x.lo * 2^m) \div Limb) % Limb,
                   lo |-> (x.lo * 2^m) % Limb]
             ELSE [hi |-> (x.lo * 2^(m - 16)) % Limb, lo |-> 0]
    IN  [overflow |-> n >= 32, val |-> v]


\* n * d exactly, as an f64, for an i32 n and 1 <= d <= 2^15
f64_mul_int(n, d) == Wide((n \div Limb) * d, (n % Limb) * d)

-----------------------------------------------------------------------------
(* f64 pixel sizes, in units of initial_resolution / 2^30                  *)

Finite(n) == [class |-> "finite", n |-> n]
PosInf == [class |-> "inf", n |-> 0]
NaN == [class |-> "nan", n |-> 0]

\* a > b in f64, b finite: every comparison with NaN is false
f64_gt(a, b) ==
    CASE a.class = "nan" -> FALSE
      [] a.class = "inf" -> TRUE
      [] OTHER -> a.n > b.n

\* a >= b in f64, b finite
f64_ge(a, b) ==
    CASE a.class = "nan" -> FALSE
      [] a.class = "inf" -> TRUE
      [] OTHER -> a.n >= b.n

\* a <= b in f64, for any two pixel sizes
f64_le(a, b) ==
    CASE a.class = "nan" \/ b.class = "nan" -> FALSE
      [] b.class = "inf" -> TRUE
      [] a.class = "inf" -> FALSE
      [] OTHER -> a.n <= b.n

-----------------------------------------------------------------------------
(* GlobalMercator                                                          *)

DefaultTileSize == 256

\* the levels zoom_for_pixel_size scans: for i in 0..30
ZoomLevels == 30

Ok(v) == [ok |-> TRUE, val |-> v]
Panic == [ok |-> FALSE, val |-> <<>>]

\* initial_resolution = 2 * PI * 6378137 / tile_size, in its own units
initial_resolution == 2^30

\* resolution(zoom) = initial_resolution / 2^zoom, for zoom <= 30
resolution(zoom) == Finite(initial_resolution \div 2^zoom)

\* pixel_to_tile with floor(p / tile_size) in place of ceil(...) - 1
pixel_to_tile_floor(p) ==
    [overflow |-> FALSE, val |-> f64_as_i32(f64_div(p, tile_size).floor)]

\* f64::ceil(p / self.tile_size as f64) as i32 - 1: one coordinate of
\* pixels_to_tile
pixel_to_tile(p) ==
    i32_sub(f64_as_i32(f64_ceil(f64_div(p, tile_size))), 1)

pixels_to_tile(px, py) ==
    LET tx == pixel_to_tile(px)
        ty == pixel_to_tile(py)
    IN  IF overflow_checks /\ (tx.overflow \/ ty.overflow)
        THEN Panic
        ELSE Ok([tx |-> tx.val, ty |-> ty.val])

\* let map_size = self.tile_size << zoom
map_size(zoom) == u32_shl(int_as_f64(tile_size), zoom)

pixels_to_raster(px, py, zoom) ==
    LET m == map_size(zoom)
    IN  IF overflow_checks /\ m.overflow
        THEN Panic
        ELSE Ok([px |-> px, raster_py |-> f64_sub(m.val, py)])

\* t * self.tile_size as i32: the lower corner of tile t, in i32
tile_min_pixel(t) == i32_mul(t, tile_size)

\* (t + 1) * self.tile_size as i32: the upper corner of tile t, in i32
tile_max_pixel(t) ==
    LET n == i32_add(t, 1)
        p == i32_mul(n.val, tile_size)
    IN  [overflow |-> n.overflow \/ p.overflow, val |-> p.val]

\* tile_bounds, up to the pixel corners it hands to pixels_to_meters (which
\* maps them to meters at the zoom given)
tile_bounds(tx, ty, zoom) ==
    LET minx == tile_min_pixel(tx)
        miny == tile_min_pixel(ty)
        maxx == tile_max_pixel(tx)
        maxy == tile_max_pixel(ty)
    IN  IF overflow_checks
           /\ (minx.overflow \/ miny.overflow \/ maxx.overflow \/ maxy.overflow)
        THEN Panic
        ELSE Ok([min_px |-> int_as_f64(minx.val), min_py |-> int_as_f64(miny.val),
                 max_px |-> int_as_f64(maxx.val), max_py |-> int_as_f64(maxy.val),
                 zoom   |-> zoom])

\* zoom_scan returning the level found, not the one before it
RECURSIVE zoom_scan_no_step_back(_, _)
zoom_scan_no_step_back(pixel_size, i) ==
    IF i >= ZoomLevels THEN Panic
    ELSE IF f64_gt(pixel_size, resolution(i))
         THEN Ok([zoom |-> i])
         ELSE zoom_scan_no_step_back(pixel_size, i + 1)

\* zoom_scan with pixel_size >= resolution(i) as its test
RECURSIVE zoom_scan_ge(_, _)
zoom_scan_ge(pixel_size, i) ==
    IF i >= ZoomLevels THEN Panic
    ELSE IF f64_ge(pixel_size, resolution(i))
         THEN Ok([zoom |-> IF i # 0 THEN i - 1 ELSE 0])
         ELSE zoom_scan_ge(pixel_size, i + 1)

\* the scan of zoom_for_pixel_size from level i on
RECURSIVE zoom_scan(_, _)
zoom_scan(pixel_size, i) ==
    IF i >= ZoomLevels THEN Panic
    ELSE IF f64_gt(pixel_size, resolution(i))
         THEN Ok([zoom |-> IF i # 0 THEN i - 1 ELSE 0])
         ELSE zoom_scan(pixel_size, i + 1)

zoom_for_pixel_size(pixel_size) == zoom_scan(pixel_size, 0)

\* f64::powi(2.0, zoom as i32) as i32 - 1: the top row of google_tile
google_top_row(zoom) == i32_sub(f64_as_i32(f64_powi2(zoom)), 1).val

google_tile(tx, ty, zoom) ==
    LET gy == i32_sub(google_top_row(zoom), ty)
    IN  IF overflow_checks /\ gy.overflow
        THEN Panic
        ELSE Ok([tx |-> tx, gy |-> gy.val])

\* quad_top_row without its - 1.0
quad_top_row_no_minus_one(zoom) == f64_as_i32(f64_powi2(zoom))

\* (f64::powi(2.0, zoom as i32) - 1.0) as i32: the top row of quad_tree
quad_top_row(zoom) == f64_as_i32(f64_sub(f64_powi2(zoom), Wide(0, 1)))

\* format!("{}", digit)
format_digit(digit) ==
    CASE digit = 0 -> "0"
      [] digit = 1 -> "1"
      [] digit = 2 -> "2"
      [] digit = 3 -> "3"

\* the digit of one pass of the loop, given the mask
quad_digit(tx, ty, mask) ==
    (IF i32_and_nonzero(tx, mask) THEN 1 ELSE 0)
    + (IF i32_and_nonzero(ty, mask) THEN 2 ELSE 0)

\* quad_mask shifting by i, not by i - 1
quad_mask_off_by_one(i) == i32_shl_one(i)

\* let mask = 1 << (i - 1)
quad_mask(i) == i32_shl_one(i - 1)

\* the loop of quad_tree: for i in (1..(zoom + 1) as i32).rev(), from i down
RECURSIVE quad_loop(_, _, _, _)
quad_loop(tx, ty, i, quad_key) ==
    IF i < 1 THEN Ok([quad_key |-> quad_key])
    ELSE LET mask == quad_mask(i)
         IN  IF overflow_checks /\ mask.overflow
             THEN Panic
             ELSE quad_loop(tx, ty, i - 1,
                      Append(quad_key, format_digit(quad_digit(tx, ty, mask.val))))

quad_tree(tx, ty, zoom) ==
    LET fy == i32_sub(quad_top_row(zoom), ty)
    IN  IF overflow_checks /\ fy.overflow
        THEN Panic
        ELSE quad_loop(tx, fy.val, zoom, <<>>)

-----------------------------------------------------------------------------
(* The arguments the caller draws                                          *)

TileSizes == {DefaultTileSize, 2 * DefaultTileSize}

Zooms == 0..MaxZoom

\* tile indices: the small ones, the ends of i32, the tile of the tests'
\* (48.6263556, 2.2492123) at zoom 12, alternating bits, and the last tiles
\* of the deep zoom levels
TileSamples ==
    (0..MaxSmallTile)
    \union {I32_MIN, -1, 2073, 2682, 1431655765, 2^23 - 1, 2^23, 2^24 - 1,
            2^30, I32_MAX}

\* the pixel (t + 1) * tile_size - back: in tile t, back pixels under its
\* upper edge
pixel_of_tile(t, back) ==
    f64_sub(f64_add(f64_mul_int(t, tile_size), Wide(0, tile_size)), Wide(0, back))

\* the centre of the map at zoom z >= 1: tile_size * 2^(z-1)
map_centre(z) ==
    LET p == f64_powi2(z - 1)
    IN  Wide(p.hi * tile_size, p.lo * tile_size)

PixelSamples ==
    {pixel_of_tile(t, back) : t \in {I32_MIN, -1, 0, 2073, I32_MAX},
                              back \in {0, 1, tile_size - 1}}

PixelPairs ==
    (PixelSamples \X PixelSamples)
    \union {<<map_centre(z), map_centre(z)>> : z \in 1..MaxZoom}

RasterSamples ==
    {Wide(0, 0), Wide(0, 1), Wide(0, tile_size), Wide(2^14, 0), Wide(2^15, 1)}

\* pixel sizes: around every resolution(i), below the last, above the first,
\* none, negative, and the two that are no numbers
PixelSizes ==
    {Finite(n) : n \in {-1, 0, 1, I32_MAX}}
    \union {Finite(2^k + d) : k \in 1..30, d \in {-1, 0, 1}}
    \union {PosInf, NaN}

-----------------------------------------------------------------------------
(* The caller                                                              *)

\* GlobalMercator::new(tile_size), in a build with or without overflow checks
Init ==
    /\ tile_size \in TileSizes
    /\ overflow_checks \in BOOLEAN
    /\ pc = "idle"
    /\ fn = ""
    /\ args = <<>>
    /\ ret = <<>>

\* the call of f with arguments a ends with result r: a value, or a panic
Call(f, a, r) ==
    /\ fn' = f
    /\ args' = a
    /\ ret' = r.val
    /\ pc' = IF r.ok THEN "returned" ELSE "panicked"
    /\ UNCHANGED <<tile_size, overflow_checks>>

CallPixelsToTile ==
    /\ pc = "idle"
    /\ \E p \in PixelPairs :
           Call("pixels_to_tile", [px |-> p[1], py |-> p[2]],
                pixels_to_tile(p[1], p[2]))

CallPixelsToRaster ==
    /\ pc = "idle"
    /\ \E px \in {Wide(0, 0), Wide(0, 300)}, py \in RasterSamples, zoom \in Zooms :
           Call("pixels_to_raster", [px |-> px, py |-> py, zoom |-> zoom],
                pixels_to_raster(px, py, zoom))

CallTileBounds ==
    /\ pc = "idle"
    /\ \E tx \in TileSamples, ty \in TileSamples, zoom \in Zooms :
           Call("tile_bounds", [tx |-> tx, ty |-> ty, zoom |-> zoom],
                tile_bounds(tx, ty, zoom))

CallZoomForPixelSize ==
    /\ pc = "idle"
    /\ \E pixel_size \in PixelSizes :
           Call("zoom_for_pixel_size", [pixel_size |-> pixel_size],
                zoom_for_pixel_size(pixel_size))

CallGoogleTile ==
    /\ pc = "idle"
    /\ \E tx \in TileSamples, ty \in TileSamples, zoom \in Zooms :
           Call("google_tile", [tx |-> tx, ty |-> ty, zoom |-> zoom],
                google_tile(tx, ty, zoom))

CallQuadTree ==
    /\ pc = "idle"
    /\ \E tx \in TileSamples, ty \in TileSamples, zoom \in Zooms :
           Call("quad_tree", [tx |-> tx, ty |-> ty, zoom |-> zoom],
                quad_tree(tx, ty, zoom))

\* the caller drops the value and is ready for the next call; a panic ends
\* the caller
Continue ==
    /\ pc = "returned"
    /\ pc' = "idle"
    /\ fn' = ""
    /\ args' = <<>>
    /\ ret' = <<>>
    /\ UNCHANGED <<tile_size, overflow_checks>>

Next ==
    \/ CallPixelsToTile
    \/ CallPixelsToRaster
    \/ CallTileBounds
    \/ CallZoomForPixelSize
    \/ CallGoogleTile
    \/ CallQuadTree
    \/ Continue

Spec == Init /\ [][Next]_vars

Returned(f) == pc = "returned" /\ fn = f
Panicked(f) == pc = "panicked" /\ fn = f

-----------------------------------------------------------------------------
(* What the properties below are stated with                               *)

Called(f) == pc # "idle" /\ fn = f

\* 2^zoom - 1, the last tile index of a zoom level, for zoom <= 31
LastTile(zoom) == IF zoom = 31 THEN I32_MAX ELSE 2^zoom - 1

\* 0 <= tx, ty < 2^zoom
InPyramid(tx, ty, zoom) ==
    /\ 0 <= tx /\ tx <= LastTile(zoom)
    /\ 0 <= ty /\ ty <= LastTile(zoom)

\* bit i of a number x >= 0
Bit(x, i) == (x \div 2^i) % 2

DecimalDigits == <<"0", "1", "2", "3">>

f64_lt(a, b) == a.hi < b.hi \/ (a.hi = b.hi /\ a.lo < b.lo)

\* tile_size * 2^zoom, the raster's edge at a zoom level
RasterEdge(zoom) ==
    LET p == f64_powi2(zoom)
    IN  Wide(p.hi * tile_size, p.lo * tile_size)

\* t * tile_size < p <= (t + 1) * tile_size
InSpan(p, t) ==
    LET low == f64_mul_int(t, tile_size)
        high == f64_add(low, Wide(0, tile_size))
    IN  f64_lt(low, p) /\ ~f64_lt(high, p)

\* the tile indices the spans are taken of
SpanTiles == {I32_MIN, -1, 0, 2073, I32_MAX - 1, I32_MAX}

\* the key "2" followed by z - 1 times "1"
CentreKey(z) == <<"2">> \o [k \in 1..(z - 1) |-> "1"]

\* the centre of the map at zoom z went to tile (2^(z-1) - 1, 2^(z-1) - 1),
\* whose key at zoom z is CentreKey(z)
CentreTileAndKey(z) ==
    LET t == f64_sub(f64_powi2(z - 1), Wide(0, 1))
    IN  /\ pc = "returned"
        /\ int_as_f64(ret.tx) = t
        /\ int_as_f64(ret.ty) = t
        /\ quad_tree(ret.tx, ret.ty, z) = Ok([quad_key |-> CentreKey(z)])

AtCentre(z) ==
    /\ Called("pixels_to_tile")
    /\ args.px = map_centre(z)
    /\ args.py = map_centre(z)

-----------------------------------------------------------------------------
(* The properties                                                          *)

\* C1: for every zoom in 0..30 and every i32 tile index pair, quad_tree
\* returns a string of exactly zoom characters, each one of 0, 1, 2, 3.
C1_QuadKeyLength ==
    (Called("quad_tree") /\ args.zoom \in 0..30) =>
        /\ pc = "returned"
        /\ Len(ret.quad_key) = args.zoom
        /\ \A k \in 1..args.zoom : ret.quad_key[k] \in {"0", "1", "2", "3"}

\* C2: for zoom in 0..30 and a tile of the pyramid, quad_tree returns, and
\* character k (from 0) of the key is the decimal digit b_x + 2 * b_y, with
\* b_x bit zoom-1-k of tx and b_y bit zoom-1-k of the row (2^zoom - 1) - ty.
C2_QuadKeyDigits ==
    (Called("quad_tree") /\ args.zoom \in 0..30
                         /\ InPyramid(args.tx, args.ty, args.zoom)) =>
        /\ pc = "returned"
        /\ Len(ret.quad_key) = args.zoom
        /\ \A k \in 0..(args.zoom - 1) :
               ret.quad_key[k + 1] =
                   DecimalDigits[1 + Bit(args.tx, args.zoom - 1 - k)
                                   + 2 * Bit(LastTile(args.zoom) - args.ty,
                                             args.zoom - 1 - k)]

\* C2's case: the tile of the tests' point at zoom 12 and its key
C2_Witness ==
    /\ Returned("quad_tree")
    /\ args = [tx |-> 2073, ty |-> 2682, zoom |-> 12]
    /\ ret.quad_key = <<"1", "2", "0", "2", "2", "0", "0", "1", "1", "2", "0", "3">>

\* C3: for z in 0..29 and a tile (tx, ty) of the pyramid at z, the key of
\* each of its four tiles (2tx + a, 2ty + b) at z + 1 is the key of (tx, ty)
\* at z followed by exactly one more digit.
C3_PrefixConsistent ==
    (Returned("quad_tree") /\ args.zoom \in 0..29
                           /\ InPyramid(args.tx, args.ty, args.zoom)) =>
        \A a \in {0, 1}, b \in {0, 1} :
            LET child == quad_tree(2 * args.tx + a, 2 * args.ty + b,
                                   args.zoom + 1)
            IN  /\ child.ok
                /\ Len(child.val.quad_key) = args.zoom + 1
                /\ SubSeq(child.val.quad_key, 1, args.zoom) = ret.quad_key

\* C3's case: the zoom-12 key of the tests' point, a prefix of the zoom-24
\* key of the same point
C3_Witness ==
    /\ Returned("quad_tree")
    /\ args = [tx |-> 2073, ty |-> 2682, zoom |-> 12]
    /\ Len(ret.quad_key) = 12
    /\ SubSeq(quad_tree(8493428, 10989105, 24).val.quad_key, 1, 12) = ret.quad_key

\* C4: for every tile index t and every pixel coordinate p with
\* t * tile_size < p <= (t + 1) * tile_size, the component pixels_to_tile
\* returns for p is t (so pixel 0 goes to tile -1).
C4_PixelsToTile ==
    Called("pixels_to_tile") =>
        \A t \in SpanTiles :
            /\ InSpan(args.px, t) => (pc = "returned" /\ ret.tx = t)
            /\ InSpan(args.py, t) => (pc = "returned" /\ ret.ty = t)

\* C5: zoom_for_pixel_size returns 0 for every pixel_size >= resolution(0),
\* and over the pixel sizes on which it returns it is non-increasing.
C5_ZoomMonotone ==
    Called("zoom_for_pixel_size") =>
        /\ f64_ge(args.pixel_size, resolution(0)) => (pc = "returned" /\ ret.zoom = 0)
        /\ pc = "returned" =>
               \A p2 \in PixelSizes :
                   LET z2 == zoom_for_pixel_size(p2)
                   IN  (z2.ok /\ f64_le(args.pixel_size, p2)) => ret.zoom >= z2.val.zoom

\* C5's case: pixel_size exactly resolution(0)
C5_Witness ==
    /\ Returned("zoom_for_pixel_size")
    /\ args.pixel_size = resolution(0)
    /\ ret.zoom = 0

\* C6 as stated: zoom_for_pixel_size panics when pixel_size is smaller than
\* resolution(29), and for every other pixel_size it returns a zoom level.
C6_PanicBelowLast ==
    Called("zoom_for_pixel_size") =>
        (pc = "panicked" <=>
             (args.pixel_size.class = "finite"
              /\ args.pixel_size.n < resolution(29).n))

\* C6, amended: zoom_for_pixel_size panics exactly when no level i in 0..30
\* satisfies pixel_size > resolution(i), that is when pixel_size is smaller
\* than or equal to resolution(29) or is NaN; for every other pixel_size it
\* returns a zoom level (one of 0..28).
C6_PanicAtOrBelowLast ==
    Called("zoom_for_pixel_size") =>
        /\ pc = "panicked" <=>
               (args.pixel_size.class = "nan"
                \/ f64_le(args.pixel_size, resolution(ZoomLevels - 1)))
        /\ pc = "returned" => ret.zoom \in 0..(ZoomLevels - 2)

\* C6's case: pixel_size exactly resolution(29)
C6_Witness ==
    /\ Panicked("zoom_for_pixel_size")
    /\ args.pixel_size = resolution(29)

\* C7: for tile size 256 and every zoom in 0..29, pixels_to_raster(px, py,
\* zoom) returns (px, 256 * 2^zoom - py).
C7_RasterFlip ==
    (Called("pixels_to_raster") /\ tile_size = DefaultTileSize
                                /\ args.zoom \in 0..29) =>
        /\ pc = "returned"
        /\ ret.px = args.px
        /\ ret.raster_py = f64_sub(RasterEdge(args.zoom), args.py)

\* C8: for every zoom from 0 to 31 and every row 0 <= ty < 2^zoom,
\* google_tile(tx, ty, zoom) returns (tx, (2^zoom - 1) - ty), a row of
\* 0..2^zoom - 1 again; google_tile of the result is (tx, ty); and the row is
\* the flipped row quad_tree computes.
C8_GoogleTile ==
    (Called("google_tile") /\ args.zoom \in 0..31
                           /\ 0 <= args.ty /\ args.ty <= LastTile(args.zoom)) =>
        /\ pc = "returned"
        /\ ret = [tx |-> args.tx, gy |-> LastTile(args.zoom) - args.ty]
        /\ ret.gy \in 0..LastTile(args.zoom)
        /\ google_tile(ret.tx, ret.gy, args.zoom) = Ok([tx |-> args.tx, gy |-> args.ty])
        /\ ret.gy = i32_sub(quad_top_row(args.zoom), args.ty).val

C10_TileBoundsCorners ==
    (Called("tile_bounds") /\ tile_size = DefaultTileSize
                           /\ args.zoom \in 0..24
                           /\ InPyramid(args.tx, args.ty, args.zoom)) =>
        /\ pc = "returned"
        /\ ret.min_px = f64_mul_int(args.tx, tile_size)
        /\ ret.min_py = f64_mul_int(args.ty, tile_size)
        /\ ret.max_px = f64_add(f64_mul_int(args.tx, tile_size), Wide(0, tile_size))
        /\ ret.max_py = f64_add(f64_mul_int(args.ty, tile_size), Wide(0, tile_size))

=============================================================================
